---- MODULE Spec2Model ----
(***************************************************************************)
(* A model of AoC_2022/filter_map/filter_map.py ("THE GREAT FILTER"): the  *)
(* run of main() as a state machine whose steps are getOptions, readData,  *)
(* getMemberProgress, orderMembers and plotStats.                          *)
(*                                                                         *)
(* Numbers.  Python floats are modelled as exact rationals.                *)
(*   - progress and progress_exact are integers in units of 1/Unit of a    *)
(*     day, Unit = 100 * RandDen, so that day - 0.15, day - 0.5 and the    *)
(*     jitter r*delta*2 - delta of a draw r = k/RandDen are all integers.  *)
(*   - y, pass_frac and the percentages are fractions [num, den].          *)
(*   - random.random() returns k/RandDen for some k in 0..RandDen-1.       *)
(* Rendering (plotInit, plotLines, plotEndPoints, the annotate calls)      *)
(* writes figure state only and is not part of the state here.             *)
(***************************************************************************)
EXTENDS Integers, Sequences, FiniteSets, TLC

\* ------------------------------------------------------------- bounds

\* Largest day number the arguments and the input files mention.
MaxDays == 2
\* Largest number of members one input file holds.
MaxMembers == 2
\* random.random() is drawn from {0/RandDen, ..., (RandDen-1)/RandDen}.
RandDen == 3

\* ---------------------------------------------------- program constants

\* DELTA = 0.15, in hundredths.
DELTA == 15
\* math.inf, the default OPTS["time_limit"]: larger than any difference of
\* two timestamps the model holds.
INF == 2147483647
\* The default OPTS: day_min, days_total, days_passed.
DefaultDayMin == 1
DefaultDaysTotal == 25
DefaultDaysPassed == 25

\* One day of progress, in the units progress is held in.
Unit == 100 * RandDen

Rand == 0 .. (RandDen - 1)

VARIABLES
    pc,               \* where main() stands: start, read, progress, order,
                      \* stats, done, or raised (an exception ended the run)
    OPTS,             \* the global OPTS table
    input_filenames,  \* getOptions' return value
    members,          \* the members dict, in insertion order
    event,            \* data["event"] of the last file read
    filtered_by_day,  \* getMemberProgress' return value
    remaining_by_day, \* plotStats' local table
    stats,            \* the lines plotStats prints, by day
    exc,              \* the exception that ended the run, or "none"
    argv,             \* sys.argv[1:] as given (kept for reference)
    rng               \* the random draws made so far (kept for reference)

vars == <<pc, OPTS, input_filenames, members, event, filtered_by_day,
          remaining_by_day, stats, exc, argv, rng>>

\* ------------------------------------------------------------ helpers

\* A fraction num/den, den > 0 unless a division by zero happened.
Frac(n, d) == [num |-> n, den |-> d]

\* str(n): the decimal digits of n, "-" before those of a negative n.
Digits == <<"0", "1", "2", "3", "4", "5", "6", "7", "8", "9">>
RECURSIVE strNat(_)
strNat(n) == IF n < 10 THEN Digits[n + 1]
             ELSE strNat(n \div 10) \o Digits[(n % 10) + 1]
str(n) == IF n < 0 THEN "-" \o strNat(0 - n) ELSE strNat(n)

\* ------------------------------------------------------------ getOptions

DefaultOPTS ==
    [day_min |-> DefaultDayMin, days_total |-> DefaultDaysTotal,
     days_passed |-> DefaultDaysPassed, display_percentage |-> TRUE,
     order_mode |-> "id1000", time_limit |-> INF]

\* One element of sys.argv[1:]: "-d3" is [flag |-> "d", num |-> 3, str |-> ""],
\* "-om" is [flag |-> "o", num |-> 0, str |-> "m"], a file name is
\* [flag |-> "file", num |-> 0, str |-> name].  -l is given in seconds here
\* (the code multiplies the hours given by 3600).
Arg(f, n, s) == [flag |-> f, num |-> n, str |-> s]

OrderLetters ==
    [i |-> "id", g |-> "global", l |-> "local", p |-> "progress",
     s |-> "stars", m |-> "magic"]

\* The effect of one argument on [opts, files, raised].
applyArg(st, a) ==
    IF st.raised THEN st
    ELSE CASE a.flag = "d" -> [st EXCEPT !.opts.days_passed = a.num]
           [] a.flag = "t" -> [st EXCEPT !.opts.days_total = a.num]
           [] a.flag = "o" ->
                IF a.str \in DOMAIN OrderLetters
                THEN [st EXCEPT !.opts.order_mode = OrderLetters[a.str]]
                ELSE [st EXCEPT !.raised = TRUE]
           [] a.flag = "p" -> [st EXCEPT !.opts.display_percentage = FALSE]
           [] a.flag = "i" -> [st EXCEPT !.opts.day_min = a.num]
           [] a.flag = "l" -> [st EXCEPT !.opts.time_limit = a.num]
           [] OTHER -> [st EXCEPT !.files = Append(@, a.str)]

RECURSIVE applyArgs(_, _)
applyArgs(st, as) ==
    IF as = <<>> THEN st ELSE applyArgs(applyArg(st, Head(as)), Tail(as))

\* getOptions(): overwrite OPTS from sys.argv, return the input file names;
\* raise Exception("Unknown order mode") on an unknown -o letter.  OPTS is
\* written argument by argument, so the arguments before the bad one stay
\* written.
getOptions(Argvs) ==
    /\ pc = "start"
    /\ \E as \in Argvs :
         LET st == applyArgs([opts |-> OPTS, files |-> <<"a.json">>,
                              raised |-> FALSE], as)
         IN /\ argv' = as
            /\ OPTS' = st.opts
            /\ IF st.raised
               THEN /\ pc' = "raised"
                    /\ exc' = "Unknown order mode"
                    /\ UNCHANGED input_filenames
               ELSE /\ pc' = "read"
                    /\ input_filenames' = st.files
                    /\ UNCHANGED exc
    /\ UNCHANGED <<members, event, filtered_by_day, remaining_by_day, stats,
                   rng>>

\* -------------------------------------------------------------- readData

\* Position of key k in the dict d (a sequence of records with a key), or 0.
KeyIndex(d, k) ==
    IF \E i \in DOMAIN d : d[i].key = k
    THEN CHOOSE i \in DOMAIN d : d[i].key = k
    ELSE 0

\* dict.update for one item: an existing key keeps its place and takes the
\* new value, a new key is appended.
updateItem(d, item) ==
    IF KeyIndex(d, item.key) = 0 THEN Append(d, item)
    ELSE [d EXCEPT ![KeyIndex(d, item.key)] = item]

RECURSIVE dictUpdate(_, _)
dictUpdate(d, items) ==
    IF items = <<>> THEN d
    ELSE dictUpdate(updateItem(d, Head(items)), Tail(items))

\* members after every file was read, in file order.
RECURSIVE mergeFiles(_, _)
mergeFiles(d, files) ==
    IF files = <<>> THEN d
    ELSE mergeFiles(dictUpdate(d, Head(files).members), Tail(files))

\* The filtered_members dict: the members with stars != 0, order kept.
RECURSIVE filterStars(_)
filterStars(d) ==
    IF d = <<>> THEN <<>>
    ELSE IF Head(d).stars # 0 THEN <<Head(d)>> \o filterStars(Tail(d))
         ELSE filterStars(Tail(d))

\* readData(input_filenames): Inputs is a set of sequences of file contents,
\* one per file name; a file is [members |-> its "members" object in
\* order, event |-> its "event"].
readData(Inputs) ==
    /\ pc = "read"
    /\ \E files \in Inputs :
         /\ Len(files) = Len(input_filenames)
         /\ members' = filterStars(mergeFiles(<<>>, files))
         /\ event' = files[Len(files)].event
    /\ pc' = "progress"
    /\ UNCHANGED <<OPTS, input_filenames, filtered_by_day, remaining_by_day,
                   stats, exc, argv, rng>>

\* ------------------------------------------------------ getMemberProgress

IsLeap(y) == (y % 4 = 0 /\ y % 100 # 0) \/ y % 400 = 0

\* Leap years in 1970 .. y-1.
LeapsBefore(y) ==
    ((y - 1) \div 4 - (y - 1) \div 100 + (y - 1) \div 400) - 477

\* datetime.datetime(year, 12, 1, 6).timestamp(), the local zone being UTC.
eventStartTime(year) ==
    ((year - 1970) * 365 + LeapsBefore(year) + 334
        + (IF IsLeap(year) THEN 1 ELSE 0)) * 86400 + 6 * 3600

\* randDelta with the draw scaled by 4 instead of 2.
randDeltaWide(delta, k) == 4 * delta * k - delta * RandDen

\* randDelta(delta) for the draw random.random() = k/RandDen, delta in
\* hundredths, the result in progress units: r * delta * 2 - delta.
randDelta(delta, k) == 2 * delta * k - delta * RandDen

\* The get_star_ts of part `part` of a day's data: <<ts>>, or <<>> for None.
starTime(completion_data, day_str, part) ==
    IF day_str \in DOMAIN completion_data
    THEN IF part \in DOMAIN completion_data[day_str]
         THEN <<completion_data[day_str][part].get_star_ts>>
         ELSE <<>>
    ELSE <<>>

\* passed with < for <=.
passedStrict(time, start_time, time_limit) ==
    /\ time # <<>>
    /\ (time_limit = INF \/ time[1] - start_time < time_limit)

\* pass1/pass2: time is not None and time - start_time <= time_limit.
passed(time, start_time, time_limit) ==
    /\ time # <<>>
    /\ (time_limit = INF \/ time[1] - start_time <= time_limit)

\* The fields set when the loop over the days runs out: progress =
\* OPTS["days_total"] + 2.
noFail(opts) ==
    [filtered |-> FALSE, progress |-> (opts.days_total + 2) * Unit,
     progress_exact |-> (opts.days_total + 2) * Unit,
     fail_day |-> 0, fail_part |-> 0]

\* The branch "if not pass1" of day `day`, k the member's random draw.
part1Fail(day, opts, k) ==
    IF day <= opts.days_passed
    THEN [filtered |-> TRUE, progress |-> day * Unit - DELTA * RandDen,
          progress_exact |-> day * Unit - DELTA * RandDen,
          fail_day |-> day, fail_part |-> 1]
    ELSE [filtered |-> FALSE,
          progress |-> day * Unit - 50 * RandDen + randDelta(15, k),
          progress_exact |-> day * Unit - 50 * RandDen,
          fail_day |-> day, fail_part |-> 1]

\* part2Fail with the day after days_passed still filtering.
part2FailLate(day, opts, k) ==
    IF day <= opts.days_passed + 1
    THEN [filtered |-> TRUE, progress |-> day * Unit + DELTA * RandDen,
          progress_exact |-> day * Unit + DELTA * RandDen,
          fail_day |-> day, fail_part |-> 2]
    ELSE [filtered |-> FALSE,
          progress |-> day * Unit + randDelta(5, k),
          progress_exact |-> day * Unit,
          fail_day |-> day, fail_part |-> 2]

\* The branch "if not pass2" of day `day`.
part2Fail(day, opts, k) ==
    IF day <= opts.days_passed
    THEN [filtered |-> TRUE, progress |-> day * Unit + DELTA * RandDen,
          progress_exact |-> day * Unit + DELTA * RandDen,
          fail_day |-> day, fail_part |-> 2]
    ELSE [filtered |-> FALSE,
          progress |-> day * Unit + randDelta(5, k),
          progress_exact |-> day * Unit,
          fail_day |-> day, fail_part |-> 2]

\* The loop over the days of one member, from `day` on.  fail_part is the
\* part that was not passed (0: the loop ran out), fail_day the day of the
\* break.
RECURSIVE scanDays(_, _, _, _, _)
scanDays(completion_data, opts, event_start_time, k, day) ==
    IF day > opts.days_total THEN noFail(opts)
    ELSE
      LET day_str == str(day)
          start_time == event_start_time + (86400 * (day - 1))
          time1 == starTime(completion_data, day_str, "1")
          time2 == starTime(completion_data, day_str, "2")
          pass1 == passed(time1, start_time, opts.time_limit)
          pass2 == passed(time2, start_time, opts.time_limit)
      IN IF ~pass1 THEN part1Fail(day, opts, k)
         ELSE IF ~pass2 THEN part2Fail(day, opts, k)
         ELSE scanDays(completion_data, opts, event_start_time, k, day + 1)

\* One member's pass through the body of the loop over members.values().
scanMember(member, opts, event_start_time, k) ==
    scanDays(member.completion_day_level, opts, event_start_time, k,
             opts.day_min)

\* Whether the member's scan calls random.random().
usesRandom(member, opts, event_start_time) ==
    LET r == scanMember(member, opts, event_start_time, 0)
    IN r.fail_part # 0 /\ r.fail_day > opts.days_passed

\* The member with its three derived fields set.
withProgress(member, r) ==
    [f \in (DOMAIN member) \cup {"progress", "progress_exact", "filtered"} |->
        CASE f = "progress" -> r.progress
          [] f = "progress_exact" -> r.progress_exact
          [] f = "filtered" -> r.filtered
          [] OTHER -> member[f]]

\* bumpTally with = 1 for += 1.
bumpTallyOnce(tally, day) == [tally EXCEPT ![day] = 1]

\* filtered_by_day[day] += 1.
bumpTally(tally, day) == [tally EXCEPT ![day] = @ + 1]

\* The loop over members.values(), from member i on.  filtered_by_day[day]
\* += 1 raises KeyError when day is no key of the table; the members before
\* keep the fields already set.
RECURSIVE progressLoop(_, _, _, _, _)
progressLoop(st, opts, event_start_time, ks, i) ==
    IF i > Len(st.members) THEN st
    ELSE
      LET r == scanMember(st.members[i], opts, event_start_time, ks[i])
      IN IF r.fail_part # 0 /\ r.fail_day \notin DOMAIN st.tally
         THEN [st EXCEPT !.raised = TRUE]
         ELSE progressLoop(
                [members |-> [st.members EXCEPT
                                 ![i] = withProgress(st.members[i], r)],
                 tally |-> IF r.fail_part = 0 THEN st.tally
                           ELSE bumpTally(st.tally, r.fail_day),
                 raised |-> FALSE],
                opts, event_start_time, ks, i + 1)

\* getMemberProgress(members, event).  Draws is the set random.random() is
\* drawn from; a member whose scan draws nothing is given the draw 0.
getMemberProgress(Draws) ==
    /\ pc = "progress"
    /\ \E ks \in [1 .. Len(members) -> Draws] :
         LET start == eventStartTime(event)
             st == progressLoop(
                     [members |-> members,
                      tally |-> [d \in 1 .. OPTS.days_total |-> 0],
                      raised |-> FALSE],
                     OPTS, start, ks, 1)
         IN /\ \A i \in 1 .. Len(members) :
                 ~usesRandom(members[i], OPTS, start) => ks[i] = 0
            /\ members' = st.members
            /\ rng' = [rng EXCEPT !.progress = ks]
            /\ IF st.raised
               THEN /\ pc' = "raised"
                    /\ exc' = "KeyError"
                    /\ UNCHANGED filtered_by_day
               ELSE /\ pc' = "order"
                    /\ filtered_by_day' = st.tally
                    /\ UNCHANGED exc
    /\ UNCHANGED <<OPTS, input_filenames, event, remaining_by_day, stats,
                   argv>>

\* ----------------------------------------------------------- orderMembers

\* order_func for the order mode, applied to member m.
order_func(mode, m) ==
    CASE mode \in {"id1000", "magic"} -> m.id % 1000
      [] mode = "id" -> m.id
      [] mode = "global" -> m.global_score
      [] mode = "local" -> m.local_score
      [] mode = "progress" -> m.progress_exact
      [] mode = "stars" -> m.stars

\* insertByKey with x put before the indices of equal key.
RECURSIVE insertByKeyStrict(_, _, _)
insertByKeyStrict(s, x, keys) ==
    IF s = <<>> THEN <<x>>
    ELSE IF keys[Head(s)] < keys[x]
         THEN <<Head(s)>> \o insertByKeyStrict(Tail(s), x, keys)
         ELSE <<x>> \o s

\* x put into the sorted sequence of indices s, after every index whose key
\* is not larger: the place Python's stable sort gives a later element.
RECURSIVE insertByKey(_, _, _)
insertByKey(s, x, keys) ==
    IF s = <<>> THEN <<x>>
    ELSE IF keys[Head(s)] <= keys[x]
         THEN <<Head(s)>> \o insertByKey(Tail(s), x, keys)
         ELSE <<x>> \o s

\* sorted(range(n), key=keys): the indices 1..n in ascending key order, equal
\* keys in index order.
RECURSIVE sortedIdx(_, _)
sortedIdx(keys, n) ==
    IF n = 0 THEN <<>>
    ELSE insertByKey(sortedIdx(keys, n - 1), n, keys)

\* sorted(ms, key=...) as the sequence of positions in ms.
sorted(ms, mode) ==
    sortedIdx([i \in DOMAIN ms |-> order_func(mode, ms[i])], Len(ms))

\* The member with field y set.
withY(member, y) ==
    [f \in (DOMAIN member) \cup {"y"} |->
        IF f = "y" THEN y ELSE member[f]]

\* y of the first pass: (i+1)/len(members), i the 0-based place in the order.
primaryY(i, n) == Frac(i + 1, n)

\* The first pass: member["y"] = (i+1)/len(members) along members_ordered.
primaryPass(ms, mode) ==
    LET ord == sorted(ms, mode)
    IN [j \in DOMAIN ms |->
          withY(ms[j],
                primaryY((CHOOSE i \in DOMAIN ord : ord[i] = j) - 1, Len(ms)))]

\* The positions in ms of the members with filtered false, in dict order.
RECURSIVE unfilteredIdx(_, _)
unfilteredIdx(ms, i) ==
    IF i > Len(ms) THEN <<>>
    ELSE IF ~ms[i].filtered THEN <<i>> \o unfilteredIdx(ms, i + 1)
         ELSE unfilteredIdx(ms, i + 1)

\* ms of the magic pass: the unfiltered members sorted by id % 1000, as
\* positions in the dict.
magicOrder(ms) ==
    LET un == unfilteredIdx(ms, 1)
        ord == sortedIdx([i \in DOMAIN un |-> ms[un[i]].id % 1000], Len(un))
    IN [i \in DOMAIN ord |-> un[ord[i]]]

\* magicY with the jitter drawn from (-dy/2, dy/2).
magicYWide(i, k, a, b) ==
    Frac(4 * ((a * k) % RandDen) + 4 * RandDen * i + 2 * (2 * b - RandDen),
         4 * RandDen * k)

\* offset + i * dy + random.uniform(-dy/4, dy/4) with dy = 1/k,
\* offset = (a/RandDen) % dy and the uniform draw -dy/4 + (dy/2) * b/RandDen,
\* as one fraction over 4 * RandDen * k.
magicY(i, k, a, b) ==
    Frac(4 * ((a * k) % RandDen) + 4 * RandDen * i + (2 * b - RandDen),
         4 * RandDen * k)

\* The magic pass on the members ms: a is the offset's draw, bs the draws of
\* random.uniform along the sorted unfiltered members.
magicPass(ms, a, bs) ==
    LET ord == magicOrder(ms)
        k == Len(ord)
    IN [j \in DOMAIN ms |->
          IF \E i \in DOMAIN ord : ord[i] = j
          THEN LET i == CHOOSE i \in DOMAIN ord : ord[i] = j
               IN withY(ms[j], magicY(i - 1, k, a, bs[i]))
          ELSE ms[j]]

\* orderMembers(members).
orderMembers(Draws) ==
    /\ pc = "order"
    /\ LET first == primaryPass(members, OPTS.order_mode)
           k == Len(magicOrder(first))
       IN IF OPTS.order_mode = "magic" /\ k # 0
          THEN \E a \in Draws : \E bs \in [1 .. k -> Draws] :
                 /\ members' = magicPass(first, a, bs)
                 /\ rng' = [rng EXCEPT !.offset = a, !.jitter = bs]
          ELSE /\ members' = first
               /\ UNCHANGED rng
    /\ pc' = "stats"
    /\ UNCHANGED <<OPTS, input_filenames, event, filtered_by_day,
                   remaining_by_day, stats, exc, argv>>

\* -------------------------------------------------------------- plotStats

\* remaining_by_day after the first loop: day 0 holds len(members), day i
\* what day i-1 holds less filtered_by_day[i].
RECURSIVE remainingTable(_, _, _)
remainingTable(n, tally, i) ==
    IF i = 0 THEN (0 :> n)
    ELSE LET prev == remainingTable(n, tally, i - 1)
         IN prev @@ (i :> (prev[i - 1] - tally[i]))

\* The line printed for day i: the number filtered that day, percent_filtered
\* = 100 * (1 - pass_frac) and percent_total = 100 * total_frac.
statLine(rem, i) ==
    [filtered |-> rem[i - 1] - rem[i],
     pass_frac |-> Frac(rem[i], rem[i - 1]),
     percent_filtered |-> Frac(100 * (rem[i - 1] - rem[i]), rem[i - 1]),
     percent_total |-> Frac(100 * rem[i], rem[0])]

\* skipDay without the continue.
skipDayNever(rem, i) == FALSE

\* Whether the loop over the days skips day i (the continue).
skipDay(rem, i) == rem[i - 1] = 0

\* The loop "Draw user counts" from day i on; st is [lines, exc].
RECURSIVE countsLoop(_, _, _, _)
countsLoop(st, rem, days_passed, i) ==
    IF i > days_passed THEN st
    ELSE IF (i - 1) \notin DOMAIN rem THEN [st EXCEPT !.exc = "KeyError"]
    ELSE IF skipDay(rem, i) THEN countsLoop(st, rem, days_passed, i + 1)
    ELSE IF i \notin DOMAIN rem THEN [st EXCEPT !.exc = "KeyError"]
    ELSE IF rem[i - 1] = 0 \/ rem[0] = 0
         THEN [st EXCEPT !.exc = "ZeroDivisionError"]
    ELSE countsLoop([st EXCEPT !.lines = @ @@ (i :> statLine(rem, i))],
                    rem, days_passed, i + 1)

\* plotStats(members, filtered_by_day).
plotStats ==
    /\ pc = "stats"
    /\ LET rem == remainingTable(Len(members), filtered_by_day,
                                 OPTS.days_total)
           st == countsLoop([lines |-> <<>>, exc |-> "none"], rem,
                            OPTS.days_passed, 1)
           \* "Draw percentages": remaining_by_day[i] for i in 0..days_passed.
           last == IF st.exc = "none" /\ OPTS.display_percentage
                      /\ \E i \in 0 .. OPTS.days_passed : i \notin DOMAIN rem
                   THEN "KeyError" ELSE st.exc
       IN /\ remaining_by_day' = rem
          /\ stats' = st.lines
          /\ exc' = last
          /\ pc' = IF last = "none" THEN "done" ELSE "raised"
    /\ UNCHANGED <<OPTS, input_filenames, members, event, filtered_by_day,
                   argv, rng>>

\* -------------------------------------------------------------------- main

Init ==
    /\ pc = "start"
    /\ OPTS = DefaultOPTS
    /\ input_filenames = <<>>
    /\ members = <<>>
    /\ event = 0
    /\ filtered_by_day = <<>>
    /\ remaining_by_day = <<>>
    /\ stats = <<>>
    /\ exc = "none"
    /\ argv = <<>>
    /\ rng = [progress |-> <<>>, offset |-> 0, jitter |-> <<>>]

\* ----------------------------------------------------------------- inputs

\* -l1: OPTS["time_limit"] = float("1") * 3600.
HourLimit == 3600
\* data["event"] of the input files.
EventYear == 2022

\* One item of a file's "members" object.
Member(key, id, global_score, local_score, stars, completion) ==
    [key |-> key, id |-> id, global_score |-> global_score,
     local_score |-> local_score, stars |-> stars,
     completion_day_level |-> completion]

\* What a file may hold for one part of one day: nothing, or a time after the
\* day's start taken from Offs.
PartChoices(Offs) == {<<>>} \cup {<<o>> : o \in Offs}

\* completion_day_level for the choice c of [day -> <<part 1, part 2>>]: a day
\* with neither part is no key of it, a missing part no key of the day.
Completion(c) ==
    LET days == {d \in DOMAIN c : c[d] # <<<<>>, <<>>>>}
        dayOf(s) == CHOOSE d \in days : str(d) = s
        ts(d, o) == [get_star_ts |->
                        eventStartTime(EventYear) + 86400 * (d - 1) + o[1]]
    IN [s \in {str(d) : d \in days} |->
          LET d == dayOf(s)
          IN [p \in {q \in {"1", "2"} : c[d][IF q = "1" THEN 1 ELSE 2] # <<>>} |->
                ts(d, c[d][IF p = "1" THEN 1 ELSE 2])]]

\* The number of parts a choice holds: the member's star count.
RECURSIVE StarsOf(_, _)
StarsOf(c, d) ==
    IF d = 0 THEN 0
    ELSE StarsOf(c, d - 1) + (IF c[d][1] # <<>> THEN 1 ELSE 0)
                           + (IF c[d][2] # <<>> THEN 1 ELSE 0)

\* Every choice of parts for the days 1..MaxDays.
Choices(P1, P2) == [1 .. MaxDays -> P1 \X P2]

\* The sequences of 0..n elements of S.
RECURSIVE SeqsUpTo(_, _)
SeqsUpTo(S, n) ==
    IF n = 0 THEN {<<>>}
    ELSE LET shorter == SeqsUpTo(S, n - 1)
         IN shorter \cup
            {Append(q, x) : q \in {r \in shorter : Len(r) = n - 1}, x \in S}

\* The sequences of 0..n elements of S, no two alike.
DistinctSeqs(S, n) ==
    {q \in SeqsUpTo(S, n) : \A i, j \in DOMAIN q : q[i] = q[j] => i = j}

File(ms) == [members |-> ms, event |-> EventYear]

\* Configurations section 7 of the spec accepts: day_min <= days_total and
\* 0 <= days_passed <= days_total.
ValidArgs(Totals) ==
    {<<Arg("t", t, ""), Arg("d", d, ""), Arg("i", i, "")>> :
        t \in Totals, d \in 0 .. MaxDays, i \in 1 .. MaxDays}

ArgvValid(Totals) ==
    {as \in ValidArgs(Totals) : as[2].num <= as[1].num /\ as[3].num <= as[1].num}

\* --- one member, every timing of every part, with and without a limit
ArgvProgress ==
    {as \o lim : as \in ArgvValid(1 .. MaxDays),
                 lim \in {<<>>, <<Arg("l", HourLimit, "")>>}}

InputsProgress ==
    {<<File(<<Member("7", 7, 0, 0, 1, Completion(c))>>)>> :
        c \in Choices(PartChoices({HourLimit, HourLimit + 1}),
                      PartChoices({HourLimit, HourLimit + 1}))}

\* --- several members, stars counted from the parts held
ArgvTally == ArgvValid({MaxDays})

TallyMembers ==
    {Member("m", 0, 0, 0, StarsOf(c, MaxDays), Completion(c)) :
        c \in {x \in Choices(PartChoices({0}), PartChoices({0})) :
                  \A d \in 1 .. MaxDays : x[d][2] # <<>> => x[d][1] # <<>>}}

\* The members m of a sequence given the keys and ids 1, 2, ...
Numbered(ms) ==
    [i \in DOMAIN ms |-> [ms[i] EXCEPT !.key = str(i), !.id = i]]

InputsTally ==
    {<<File(Numbered(ms))>> : ms \in SeqsUpTo(TallyMembers, MaxMembers)}

\* --- members that tie and differ under every order key
ArgvOrder ==
    {<<Arg("t", MaxDays, ""), Arg("d", d, "")>> \o o :
        d \in {1, MaxDays},
        o \in {<<>>} \cup {<<Arg("o", 0, x)>> : x \in DOMAIN OrderLetters}}

\* Part 1 of day 1 only; both parts of day 1 only; both parts of every day.
OrderProfiles ==
    {[d \in 1 .. MaxDays |-> IF d = 1 THEN <<<<0>>, <<>>>> ELSE <<<<>>, <<>>>>],
     [d \in 1 .. MaxDays |-> IF d = 1 THEN <<<<0>>, <<0>>>> ELSE <<<<>>, <<>>>>],
     [d \in 1 .. MaxDays |-> <<<<0>>, <<0>>>>]}

OrderIds == {1, 2, 1001}

OrderAttrs ==
    [global_score : {0, 5}, local_score : {10, 20}, profile : OrderProfiles]

InputsOrder ==
    UNION {
      {<<File([i \in DOMAIN ids |->
                 Member(str(ids[i]), ids[i], at[i].global_score,
                        at[i].local_score, StarsOf(at[i].profile, MaxDays),
                        Completion(at[i].profile))])>> :
          at \in [DOMAIN ids -> OrderAttrs]} :
      ids \in DistinctSeqs(OrderIds, MaxMembers)}

\* --- every argument, valid or not, and two input files
ArgvAll ==
    {<<Arg("t", t, ""), Arg("d", d, ""), Arg("i", i, "")>> \o o \o p \o f :
        t \in 1 .. MaxDays, d \in -1 .. MaxDays + 1, i \in 0 .. MaxDays + 1,
        o \in {<<>>, <<Arg("o", 0, "p")>>, <<Arg("o", 0, "m")>>,
               <<Arg("o", 0, "x")>>},
        p \in {<<>>, <<Arg("p", 0, "")>>},
        f \in {<<>>, <<Arg("file", 0, "b.json")>>}}

\* Member 1 without a star time, member 1 with every part, member 1001 with
\* every part.
AllPersons ==
    {Member("1", 1, 0, 0, 1, <<>>),
     Member("1", 1, 0, 0, 2 * MaxDays,
            Completion([d \in 1 .. MaxDays |-> <<<<0>>, <<0>>>>])),
     Member("1001", 1001, 0, 0, 2 * MaxDays,
            Completion([d \in 1 .. MaxDays |-> <<<<0>>, <<0>>>>]))}

AllFiles ==
    {File(ms) : ms \in {q \in SeqsUpTo(AllPersons, MaxMembers) :
                           \A i, j \in DOMAIN q : q[i].key = q[j].key => i = j}}

InputsAll == {<<f>> : f \in AllFiles} \cup (AllFiles \X AllFiles)

\* The ends of the range random.random() is drawn from.
EndDraws == {0, RandDen - 1}

\* ---------------------------------------------------------- specifications

\* main() on any arguments and one or two files.
Next ==
    \/ getOptions(ArgvAll)
    \/ readData(InputsAll)
    \/ getMemberProgress(EndDraws)
    \/ orderMembers(EndDraws)
    \/ plotStats

Spec == Init /\ [][Next]_vars

\* main() on one member whose parts are on time, at the limit, late or absent.
NextProgress ==
    \/ getOptions(ArgvProgress)
    \/ readData(InputsProgress)
    \/ getMemberProgress(Rand)
    \/ orderMembers(Rand)
    \/ plotStats

SpecProgress == Init /\ [][NextProgress]_vars

\* main() on up to MaxMembers members.
NextTally ==
    \/ getOptions(ArgvTally)
    \/ readData(InputsTally)
    \/ getMemberProgress({0})
    \/ orderMembers({0})
    \/ plotStats

SpecTally == Init /\ [][NextTally]_vars

\* main() under every order mode.
NextOrder ==
    \/ getOptions(ArgvOrder)
    \/ readData(InputsOrder)
    \/ getMemberProgress({0})
    \/ orderMembers(EndDraws)
    \/ plotStats

SpecOrder == Init /\ [][NextOrder]_vars

\* ------------------------------------------------- what the claims speak of

\* getMemberProgress has set the member's derived fields.
HasProgress(m) == "progress_exact" \in DOMAIN m

\* orderMembers has set the member's y.
HasY(m) == "y" \in DOMAIN m

\* The start of day `day`.
DayStart(day) == eventStartTime(event) + 86400 * (day - 1)

\* The file holds a star time for the part of the day.
Present(m, day, part) ==
    /\ str(day) \in DOMAIN m.completion_day_level
    /\ part \in DOMAIN m.completion_day_level[str(day)]

\* The seconds from the day's start to the star time of the part.
Elapsed(m, day, part) ==
    m.completion_day_level[str(day)][part].get_star_ts - DayStart(day)

\* The part was done, and within the time limit if one is set.
OnTime(m, day, part) ==
    /\ Present(m, day, part)
    /\ (OPTS.time_limit = INF \/ Elapsed(m, day, part) <= OPTS.time_limit)

DayDone(m, day) == OnTime(m, day, "1") /\ OnTime(m, day, "2")

\* The first day of day_min..days_total with a part not done on time: a set
\* of one day, or of none.
FailDays(m) ==
    {d \in OPTS.day_min .. OPTS.days_total :
        /\ ~DayDone(m, d)
        /\ \A e \in OPTS.day_min .. (d - 1) : DayDone(m, e)}

FailsPart1(m, d) == FailDays(m) = {d} /\ ~OnTime(m, d, "1")
FailsPart2(m, d) == FailDays(m) = {d} /\ OnTime(m, d, "1")

\* 0.15, 0.05 and 0.5 in progress units.
Delta15 == DELTA * RandDen
Delta5 == 5 * RandDen
Half == 50 * RandDen

\* The member as read from the file: without the derived fields.
Raw(m) ==
    [f \in (DOMAIN m) \ {"progress", "progress_exact", "filtered", "y"} |->
        m[f]]

\* ------------------------------------------------------------------ C1

ConfigOrdered ==
    OPTS.day_min <= OPTS.days_passed /\ OPTS.days_passed <= OPTS.days_total

\* C1 as stated: with day_min <= days_passed <= days_total, a member with
\* filtered = true has progress_exact <= days_passed.
C1_FilteredWithinElapsed ==
    \A i \in DOMAIN members :
        (HasProgress(members[i]) /\ ConfigOrdered /\ members[i].filtered)
            => members[i].progress_exact <= OPTS.days_passed * Unit

\* C1, amended: with day_min <= days_passed <= days_total, a member with
\* filtered = true has progress_exact <= days_passed + 0.15, and
\* progress_exact exceeds days_passed only by a part-2 failure on the day
\* equal to days_passed.
C1_FilteredWithinElapsedPlusDelta ==
    \A i \in DOMAIN members :
        (HasProgress(members[i]) /\ ConfigOrdered /\ members[i].filtered)
            => /\ members[i].progress_exact <= OPTS.days_passed * Unit + Delta15
               /\ members[i].progress_exact > OPTS.days_passed * Unit
                    => FailsPart2(Raw(members[i]), OPTS.days_passed)

\* A filtered member whose part 2 failed on the day equal to days_passed.
C1_Part2FailOnElapsedDay ==
    \E i \in DOMAIN members :
        /\ HasProgress(members[i]) /\ ConfigOrdered /\ members[i].filtered
        /\ FailsPart2(Raw(members[i]), OPTS.days_passed)
        /\ members[i].progress_exact = OPTS.days_passed * Unit + Delta15

\* ------------------------------------------------------------------ C2

\* The member with the data of the days after d dropped.
UpToDay(m, d) ==
    [m EXCEPT !.completion_day_level =
        [s \in {str(e) : e \in 1 .. d} \cap DOMAIN m.completion_day_level |->
            m.completion_day_level[s]]]

\* What the first failing day fixes: filtered and progress_exact, and
\* whether progress equals progress_exact.
FixedByFirstFail(m) ==
    IF FailDays(m) = {}
    THEN /\ ~m.filtered
         /\ m.progress_exact = (OPTS.days_total + 2) * Unit
         /\ m.progress = m.progress_exact
    ELSE LET d == CHOOSE d \in FailDays(m) : TRUE
             sign == IF FailsPart1(m, d) THEN -1 ELSE 1
         IN IF d <= OPTS.days_passed
            THEN /\ m.filtered
                 /\ m.progress_exact = d * Unit + sign * Delta15
                 /\ m.progress = m.progress_exact
            ELSE /\ ~m.filtered
                 /\ m.progress_exact =
                        IF FailsPart1(m, d) THEN d * Unit - Half ELSE d * Unit

\* C2: a member's result is fixed by the first day of day_min..days_total on
\* which part 1 or part 2 is not passed, part 1 first; the data of later
\* days does not change it; no such day gives days_total + 2 unfiltered; a
\* member without completions, day_min <= days_passed, is filtered at
\* day_min - 0.15.
C2_ResultFixedByFirstFail ==
    \A i \in DOMAIN members :
      HasProgress(members[i]) =>
        LET m == members[i]
        IN /\ FixedByFirstFail(m)
           /\ \A d \in FailDays(m) :
                LET r == scanMember(UpToDay(Raw(m), d), OPTS,
                                    eventStartTime(event), rng.progress[i])
                IN /\ r.filtered = m.filtered
                   /\ r.progress_exact = m.progress_exact
                   /\ r.progress = m.progress
           /\ (m.completion_day_level = <<>>
                 /\ OPTS.day_min <= OPTS.days_passed)
                => /\ m.filtered
                   /\ m.progress_exact = OPTS.day_min * Unit - Delta15

\* ------------------------------------------------------------------ C7

\* The member with every star time later than the time limit removed from
\* the file, the times within the limit kept.
WithoutLate(m) ==
    LET cd == m.completion_day_level
        dayOf(s) == CHOOSE d \in 1 .. MaxDays : str(d) = s
        kept(s) == {p \in DOMAIN cd[s] :
                      OPTS.time_limit = INF
                        \/ cd[s][p].get_star_ts - DayStart(dayOf(s))
                             <= OPTS.time_limit}
    IN [m EXCEPT !.completion_day_level =
          [s \in {x \in DOMAIN cd : kept(x) # {}} |->
              [p \in kept(s) |-> cd[s][p]]]]

\* The first day of day_min..days_total for which the file lacks a part.
AbsentDays(m) ==
    {d \in OPTS.day_min .. OPTS.days_total :
        /\ ~(Present(m, d, "1") /\ Present(m, d, "2"))
        /\ \A e \in OPTS.day_min .. (d - 1) :
              Present(m, e, "1") /\ Present(m, e, "2")}

\* C7: a part counts as passed iff its star time is present and at most
\* time_limit after the start of its day, the same start for both parts: the
\* member's progress, progress_exact, filtered and place in the tally are
\* those of the scan, without a time limit, of the file with exactly the star
\* times later than start + time_limit removed; and without a time limit the
\* scan breaks on the first day that lacks a part.
C7_LateIsAbsentAtLimitPasses ==
    \A i \in DOMAIN members :
      HasProgress(members[i]) =>
        LET m == members[i]
            r == scanMember(WithoutLate(Raw(m)),
                            [OPTS EXCEPT !.time_limit = INF],
                            eventStartTime(event), rng.progress[i])
        IN /\ r.progress = m.progress
           /\ r.progress_exact = m.progress_exact
           /\ r.filtered = m.filtered
           /\ AbsentDays(WithoutLate(Raw(m))) =
                IF r.fail_part = 0 THEN {} ELSE {r.fail_day}
           /\ Len(members) = 1 =>
                \A d \in DOMAIN filtered_by_day :
                    filtered_by_day[d] =
                            IF r.fail_part # 0 /\ r.fail_day = d THEN 1 ELSE 0

\* Under a time limit, a member whose part 1 of day_min came exactly at the
\* limit and whose part 2 came one second after it, filtered by part 2.
C7_AtLimitThenLate ==
    \E i \in DOMAIN members :
        /\ HasProgress(members[i])
        /\ OPTS.time_limit = HourLimit
        /\ OPTS.day_min <= OPTS.days_passed
        /\ Present(members[i], OPTS.day_min, "1")
        /\ Elapsed(members[i], OPTS.day_min, "1") = HourLimit
        /\ Present(members[i], OPTS.day_min, "2")
        /\ Elapsed(members[i], OPTS.day_min, "2") = HourLimit + 1
        /\ members[i].filtered
        /\ members[i].progress_exact = OPTS.day_min * Unit + Delta15
        /\ filtered_by_day[OPTS.day_min] = 1

\* ------------------------------------------------------------------ C10

Abs(x) == IF x < 0 THEN 0 - x ELSE x

\* C10: the jitter touches progress only, and only for a failure on a day
\* after days_passed, by at most 0.15 (part 1) or 0.05 (part 2); whatever
\* the draw, progress_exact, filtered and the tally come out the same.
C10_JitterOnlyOnFutureProgress ==
    \A i \in DOMAIN members :
      HasProgress(members[i]) =>
        LET m == members[i]
            future(d) == d > OPTS.days_passed
        IN /\ \A d \in FailDays(m) :
                /\ (future(d) /\ FailsPart1(m, d))
                     => Abs(m.progress - m.progress_exact) <= Delta15
                /\ (future(d) /\ FailsPart2(m, d))
                     => Abs(m.progress - m.progress_exact) <= Delta5
                /\ ~future(d) => m.progress = m.progress_exact
           /\ FailDays(m) = {} => m.progress = m.progress_exact
           /\ \A k \in Rand :
                LET r == scanMember(Raw(m), OPTS, eventStartTime(event), k)
                IN /\ r.progress_exact = m.progress_exact
                   /\ r.filtered = m.filtered
                   /\ Len(members) = 1 =>
                        \A d \in DOMAIN filtered_by_day :
                          filtered_by_day[d] =
                            IF r.fail_part # 0 /\ r.fail_day = d THEN 1 ELSE 0

\* A part-2 failure after days_passed whose progress lies the full 0.05 off
\* progress_exact.
C10_FutureJitterAtBound ==
    \E i \in DOMAIN members :
        /\ HasProgress(members[i])
        /\ \E d \in FailDays(members[i]) :
             d > OPTS.days_passed /\ FailsPart2(members[i], d)
        /\ members[i].progress = members[i].progress_exact - Delta5

\* ------------------------------------------------------------------ C8

\* getMemberProgress has returned.
AfterProgress == pc \in {"order", "stats", "done"}

RECURSIVE SumTo(_, _)
SumTo(f, n) == IF n = 0 THEN 0 ELSE SumTo(f, n - 1) + f[n]

\* C8: filtered_by_day holds, for every day d of 1..days_total, the number of
\* members whose first failed part falls on day d, whether or not d <=
\* days_passed; a member is counted on at most one day, a member that passes
\* every day on none, and the days below day_min hold 0.
C8_TallyCountsFirstFailDay ==
    AfterProgress =>
      /\ DOMAIN filtered_by_day = 1 .. OPTS.days_total
      /\ \A d \in 1 .. OPTS.days_total :
           /\ filtered_by_day[d] =
                Cardinality({i \in DOMAIN members : FailDays(members[i]) = {d}})
           /\ d < OPTS.day_min => filtered_by_day[d] = 0
      /\ SumTo(filtered_by_day, OPTS.days_total) =
           Cardinality({i \in DOMAIN members : FailDays(members[i]) # {}})

\* Two members counted on one day after days_passed, none of them filtered,
\* the days below day_min holding 0.
C8_TwoCountedOnFutureDay ==
    /\ AfterProgress
    /\ OPTS.day_min > 1
    /\ \E d \in (OPTS.days_passed + 1) .. OPTS.days_total :
         filtered_by_day[d] = 2
    /\ \A i \in DOMAIN members : ~members[i].filtered

\* ------------------------------------------------------------------ C9

Min(a, b) == IF a <= b THEN a ELSE b

\* plotStats has filled remaining_by_day.
AfterStats == 0 \in DOMAIN remaining_by_day

\* C9: remaining_by_day[0] is the number of members, remaining_by_day[d] is
\* remaining_by_day[d-1] less filtered_by_day[d] for d in 1..days_total, so
\* never rising and never negative; a day without eliminations is printed
\* with percent_filtered exactly 0; a day whose previous count is 0 is
\* skipped, with no division by zero.
C9_RemainingTable ==
    AfterStats =>
      /\ DOMAIN remaining_by_day = 0 .. OPTS.days_total
      /\ remaining_by_day[0] = Len(members)
      /\ \A d \in 1 .. OPTS.days_total :
           /\ remaining_by_day[d] = remaining_by_day[d - 1] - filtered_by_day[d]
           /\ remaining_by_day[d] <= remaining_by_day[d - 1]
           /\ remaining_by_day[d] >= 0
      /\ exc # "ZeroDivisionError"
      /\ \A i \in 1 .. Min(OPTS.days_passed, OPTS.days_total) :
           IF remaining_by_day[i - 1] = 0
           THEN i \notin DOMAIN stats
           ELSE /\ i \in DOMAIN stats
                /\ stats[i].filtered = filtered_by_day[i]
                /\ stats[i].pass_frac.den # 0
                /\ stats[i].percent_filtered.den # 0
                /\ stats[i].percent_total.den # 0
                /\ filtered_by_day[i] = 0 => stats[i].percent_filtered.num = 0

\* Every member gone before a day up to days_passed: that day is skipped.
C9_EmptyCohortSkipped ==
    /\ pc = "done"
    /\ Len(members) > 0
    /\ \E i \in 2 .. OPTS.days_passed :
         /\ remaining_by_day[i - 1] = 0
         /\ i \notin DOMAIN stats
         /\ (i - 1) \in DOMAIN stats

\* ------------------------------------------------------------------ C3

UnknownOrderLetter ==
    \E j \in DOMAIN argv :
        argv[j].flag = "o" /\ argv[j].str \notin {"i", "g", "l", "p", "s", "m"}

\* The arguments ask for what section 7 of the spec calls invalid.
InvalidConfig ==
    /\ pc # "start"
    /\ \/ UnknownOrderLetter
       \/ OPTS.day_min > OPTS.days_total
       \/ OPTS.days_passed < 0
       \/ OPTS.days_passed > OPTS.days_total

\* C3: an invalid configuration stops the run before getMemberProgress writes
\* a derived field or a tally, and never surfaces as a fault of orderMembers
\* or plotStats.
C3_InvalidConfigRejected ==
    InvalidConfig =>
      /\ \A i \in DOMAIN members : ~HasProgress(members[i])
      /\ filtered_by_day = <<>>
      /\ remaining_by_day = <<>>
      /\ exc \notin {"KeyError", "ZeroDivisionError"}

\* ------------------------------------------------------------------ C4

\* C4: every y lies in (0, 1], in every order mode.
C4_YInUnitInterval ==
    \A i \in DOMAIN members :
        HasY(members[i]) =>
            /\ members[i].y.den > 0
            /\ 0 < members[i].y.num
            /\ members[i].y.num <= members[i].y.den

\* ------------------------------------------------------------------ C5

\* a < b for two fractions of positive denominators.
FracLt(a, b) == a.num * b.den < b.num * a.den

\* orderMembers has returned.
AfterOrder == pc \in {"stats", "done"}

\* The key the order mode sorts by.
OrderKey(m) ==
    CASE OPTS.order_mode = "id1000" -> m.id % 1000
      [] OPTS.order_mode = "magic" -> m.id % 1000
      [] OPTS.order_mode = "id" -> m.id
      [] OPTS.order_mode = "global" -> m.global_score
      [] OPTS.order_mode = "local" -> m.local_score
      [] OPTS.order_mode = "progress" -> m.progress_exact
      [] OPTS.order_mode = "stars" -> m.stars

\* Member i comes before member j: a smaller key, or the same key and an
\* earlier place in the members mapping.
Before(i, j) ==
    \/ OrderKey(members[i]) < OrderKey(members[j])
    \/ OrderKey(members[i]) = OrderKey(members[j]) /\ i < j

\* The number of members before member j among those of S.
RankIn(S, j) == Cardinality({i \in S : Before(i, j)})

\* C5: under every order mode but magic the y of the n members are
\* 1/n, ..., n/n without duplicates, in ascending key order, members of
\* equal key in the order of the members mapping.
C5_PositionsArePermutation ==
    (AfterOrder /\ OPTS.order_mode # "magic") =>
      LET n == Len(members)
      IN /\ \A j \in DOMAIN members :
              members[j].y = Frac(RankIn(DOMAIN members, j) + 1, n)
         /\ {members[j].y.num : j \in DOMAIN members} = 1 .. n
         /\ \A i, j \in DOMAIN members :
              i # j => members[i].y # members[j].y

\* Two members of equal key under an order mode other than id mod 1000,
\* placed in the order of the mapping.
C5_TieKeepsInsertionOrder ==
    /\ AfterOrder
    /\ OPTS.order_mode \in {"global", "local", "progress", "stars"}
    /\ Len(members) = MaxMembers
    /\ OrderKey(members[1]) = OrderKey(members[2])
    /\ members[1].id > members[2].id
    /\ FracLt(members[1].y, members[2].y)

\* ------------------------------------------------------------------ C6

Unfiltered == {i \in DOMAIN members : ~members[i].filtered}

\* C6: in magic mode a filtered member keeps (i+1)/n of the sort on id mod
\* 1000 over all members; the unfiltered members, in stable ascending order
\* of id mod 1000, lie within a quarter of the slot width 1/k of offset + r/k,
\* r = 0, 1, ..., for one offset in [0, 1/k), k their number; with no
\* unfiltered member every position is that of the first sort.
C6_MagicPositions ==
    (AfterOrder /\ OPTS.order_mode = "magic") =>
      LET n == Len(members)
          k == Cardinality(Unfiltered)
      IN /\ \A j \in (DOMAIN members) \ Unfiltered :
              members[j].y = Frac(RankIn(DOMAIN members, j) + 1, n)
         /\ \E o \in 0 .. (4 * RandDen - 1) :
              \A j \in Unfiltered :
                /\ members[j].y.den = 4 * RandDen * k
                /\ Abs(members[j].y.num
                         - (o + 4 * RandDen * RankIn(Unfiltered, j)))
                     <= RandDen

\* Magic mode with two unfiltered members of the same id mod 1000, the one
\* earlier in the mapping placed lower.
C6_TwoUnfilteredSameKey ==
    /\ AfterOrder /\ OPTS.order_mode = "magic"
    /\ \E i, j \in Unfiltered :
         /\ i < j
         /\ members[i].id % 1000 = members[j].id % 1000
         /\ FracLt(members[i].y, members[j].y)

====
